---- MODULE Spec2Model ----
(***************************************************************************)
(* Model of the TechFrame defect tracker's server (the Hono request        *)
(* handlers of the edge function, src/unnamed/part_001) over the key-value *)
(* store and the authenticator it delegates to.                            *)
(*                                                                         *)
(* A handler is an async function: between two awaits that touch the store *)
(* or the authenticator other requests may run.  Each handler is therefore *)
(* cut at those awaits into steps, one action per step, and a request in   *)
(* flight keeps its local variables in reqs[s].                            *)
(*                                                                         *)
(* Localised labels are written in ASCII: status "New" is 'Новая',         *)
(* "InProgress" 'В работе', "InReview" 'На проверке', "Closed" 'Закрыта',  *)
(* "Cancelled" 'Отменена'; priority "Low" 'Низкий', "Medium" 'Средний',    *)
(* "High" 'Высокий', "Critical" 'Критический'.                             *)
(***************************************************************************)
EXTENDS Integers, Sequences, FiniteSets, TLC

VARIABLES
    now,        \* the server's wall clock (new Date())
    kv,         \* the key-value store: key -> JSON document
    auth,       \* the authenticator's identities: user id -> user_metadata
    cnt,        \* counters: comment ids generated (crypto.randomUUID is fresh),
                \* and the writing requests accepted so far (the model's budget)
    reqs,       \* per request slot: the handler's position and locals
    resp,       \* the last response sent
    okCreated,  \* ids of the defects whose create request answered 200
    okUpdates,  \* per defect id: number of update requests answered 200
    roleFailed, \* whether a role update has been answered other than 200
    ui          \* the state of the client application

server == <<now, kv, auth, cnt, reqs, resp, okCreated, okUpdates, roleFailed>>

vars == <<now, kv, auth, cnt, reqs, resp, okCreated, okUpdates, roleFailed, ui>>

(***************************************************************************)
(* Bounds of the model.                                                    *)
(***************************************************************************)
MaxTime == 1
MaxUsers == 2
MaxDefects == 2
MaxInflight == 2

Slots == 1..MaxInflight
Times == 0..MaxTime
UserIds == 1..MaxUsers
DefectIds == 1..MaxDefects

(***************************************************************************)
(* Request inputs.  A header is the Authorization header already cut at    *)
(* its spaces: the scheme word and the words after it.  A token t >= 1 is  *)
(* the access token the authenticator issued (or would issue) to identity  *)
(* t; it resolves only while that identity exists.  Token 0 is the empty   *)
(* word.  An absent header is the header with no word after an empty       *)
(* scheme.                                                                 *)
(***************************************************************************)
Headers ==
    {[scheme |-> "", toks |-> <<>>]}
    \cup {[scheme |-> "Bearer", toks |-> w] :
            w \in {<<>>} \cup {<<t>> : t \in 0..(MaxUsers + 1)}}
    \cup {[scheme |-> "Basic", toks |-> <<t>>] : t \in 1..MaxUsers}

(* what the client sends (api.ts authenticatedRequest), or no header *)
(* the tokens a client holds or has held *)
TokenHeaders == {[scheme |-> "Bearer", toks |-> <<t>>] : t \in 1..MaxUsers}

ClientHeaders ==
    {[scheme |-> "", toks |-> <<>>]}
    \cup {[scheme |-> "Bearer", toks |-> <<t>>] : t \in 1..MaxUsers}

validRoles == {"observer", "engineer", "manager", "admin"}
Names == {"ann"}
Emails == 1..MaxUsers

Idle == [pc |-> "idle"]

(***************************************************************************)
(* The key-value store (kv_store.tsx): point get, point set, prefix scan.  *)
(* Keys are <<"user", id>>, <<"project", id>>, <<"defect", id>> and        *)
(* <<"history", defectId, entryId>>.                                       *)
(***************************************************************************)
kvHas(store, k) == k \in DOMAIN store

kvSet(store, k, doc) ==
    [x \in (DOMAIN store) \cup {k} |-> IF x = k THEN doc ELSE store[x]]

kvKeys(store, kind) == {k \in DOMAIN store : k[1] = kind}

historyKeys(store, d) == {k \in kvKeys(store, "history") : k[2] = d}

(* {...a, ...b}: the shallow merge of two JSON objects *)
Merge(a, b) ==
    [f \in (DOMAIN a) \cup (DOMAIN b) |-> IF f \in DOMAIN b THEN b[f] ELSE a[f]]

(***************************************************************************)
(* Authentication, as every handler but signup and health starts.          *)
(***************************************************************************)
(* c.req.header('Authorization')?.split(' ')[1]; 0 stands for undefined and
   for the empty word, which !accessToken treats alike *)
AccessToken(h) == IF Len(h.toks) >= 1 THEN h.toks[1] ELSE 0

(* faulty variant: the token is taken for the identity without asking the authenticator *)
verifyAuthTrusting(t) == t

(* supabase.auth.getUser: the identity's id, or 0 for null *)
verifyAuth(t) == IF t \in DOMAIN auth THEN t ELSE 0

(* faulty variant: a caller without a User record is turned away *)
AuthenticateWithRecord(h) ==
    IF AccessToken(h) = 0 \/ ~kvHas(kv, <<"user", verifyAuth(AccessToken(h))>>)
    THEN 0
    ELSE verifyAuth(AccessToken(h))

Authenticate(h) == IF AccessToken(h) = 0 THEN 0 ELSE verifyAuth(AccessToken(h))

(* a writing request is accepted while the budget lasts *)
Accept(c) ==
    /\ cnt.req < c.budget
    /\ cnt' = [cnt EXCEPT !.req = @ + 1]

Respond(s, r) ==
    /\ resp' = r
    /\ reqs' = [reqs EXCEPT ![s] = Idle]
    /\ UNCHANGED <<roleFailed, ui>>

(* the answer of a role update; a specification that follows the outcomes of
   the role updates (c.outcomes) records an answer other than 200 *)
RespondRole(s, c, r) ==
    /\ resp' = r
    /\ reqs' = [reqs EXCEPT ![s] = Idle]
    /\ roleFailed' = (roleFailed \/ (c.outcomes /\ r.code # 200))
    /\ ui' = ui

(* the handler's first lines: 401 without a token or an identity *)
Unauthorized(s, op, h) ==
    /\ Authenticate(h) = 0
    /\ Respond(s, [op |-> op, hdr |-> h, code |-> 401, ops |-> 0])
    /\ UNCHANGED <<now, kv, auth, cnt, okCreated, okUpdates>>

(* a handler that answers without changing anything *)
Answer(s, r) ==
    /\ Respond(s, r)
    /\ UNCHANGED <<now, kv, auth, cnt, okCreated, okUpdates>>

(***************************************************************************)
(* Initial state: an empty store, or a deployment whose first admin was    *)
(* provisioned in the store and the authenticator (no endpoint can create  *)
(* one: signup always yields an observer).                                 *)
(***************************************************************************)
(* no client application is part of the run *)
NoClient == [currentPage |-> "none"]

SeedAdmin == [id |-> 1, email |-> 1, name |-> "ann", role |-> "admin", createdAt |-> 0]

InitServer ==
    /\ now = 0
    /\ \E seeded \in BOOLEAN :
         IF seeded
         THEN /\ kv = kvSet(<<>>, <<"user", 1>>, SeedAdmin)
              /\ auth = (1 :> [email |-> 1, meta |-> [name |-> "ann", role |-> "admin"]])
         ELSE /\ kv = <<>>
              /\ auth = <<>>
    /\ cnt = [cmt |-> 0, req |-> 0]
    /\ reqs = [s \in Slots |-> Idle]
    /\ resp = [op |-> "none", code |-> 0, ops |-> 0]
    /\ okCreated = {}
    /\ okUpdates = [d \in DefectIds |-> 0]
    /\ roleFailed = FALSE

Init ==
    /\ InitServer
    /\ ui = NoClient

(* time passes *)
Tick ==
    /\ now < MaxTime
    /\ now' = now + 1
    /\ UNCHANGED <<kv, auth, cnt, reqs, resp, okCreated, okUpdates, roleFailed, ui>>

(***************************************************************************)
(* GET /health                                                             *)
(***************************************************************************)
Health(s) ==
    /\ reqs[s] = Idle
    /\ Answer(s, [op |-> "health", code |-> 200, ops |-> 0])

(***************************************************************************)
(* POST /signup.  createUser is refused when the email is taken (or for    *)
(* any reason of the authenticator's own); the store write may throw.      *)
(* The identity without a User record that a failed store write leaves is  *)
(* also the state between the handler's two awaits.                        *)
(***************************************************************************)
(* faulty variant: the role of the request body is used *)
SignupRoleFromBody(bodyRole) == bodyRole

(* const role = 'observer' *)
SignupRole(bodyRole) == "observer"

Signup(s, c) ==
    /\ reqs[s] = Idle
    /\ Accept(c)
    /\ \E email \in Emails, name \in Names, bodyRole \in c.signupRoles,
          created \in BOOLEAN, stored \in c.oks :
         LET role == SignupRole(bodyRole)
             uid == Cardinality(DOMAIN auth) + 1
             base == [op |-> "signup", bodyRole |-> bodyRole]
         IN  IF ~created \/ uid > MaxUsers
                \/ (\E u \in DOMAIN auth : auth[u].email = email)
             THEN /\ Respond(s, base @@ [code |-> 400, ops |-> 1])
                  /\ UNCHANGED <<kv, auth>>
             ELSE /\ auth' = auth @@ (uid :> [email |-> email,
                                             meta |-> [name |-> name, role |-> role]])
                  /\ IF stored
                     THEN /\ kv' = kvSet(kv, <<"user", uid>>,
                                         [id |-> uid, email |-> email, name |-> name,
                                          role |-> role, createdAt |-> now])
                          /\ Respond(s, base @@ [code |-> 200, ops |-> 2, user |-> uid])
                     ELSE /\ kv' = kv
                          /\ Respond(s, base @@ [code |-> 500, ops |-> 2, user |-> uid])
    /\ UNCHANGED <<now, okCreated, okUpdates>>

(***************************************************************************)
(* The list endpoints: one prefix scan.  (The documents of the body are    *)
(* the scan's result; resp keeps the status only.)                         *)
(***************************************************************************)
List(s, c, op) ==
    /\ reqs[s] = Idle
    /\ \E h \in c.headers :
         \/ Unauthorized(s, op, h)
         \/ /\ Authenticate(h) # 0
            /\ \E ok \in c.oks :
                 Answer(s, [op |-> op, hdr |-> h, code |-> IF ok THEN 200 ELSE 500,
                            ops |-> 1])

ListProjects(s, c) == List(s, c, "listProjects")
ListDefects(s, c) == List(s, c, "listDefects")
ListUsers(s, c) == List(s, c, "listUsers")

(***************************************************************************)
(* POST /projects                                                          *)
(***************************************************************************)
(* faulty variant: the project is stored as completed *)
NewProjectCompleted(pid, user, t) ==
    [id |-> pid, name |-> "p", createdBy |-> user, createdAt |-> t,
     status |-> "completed"]

(* const project = {...}: of the body only name, description and the dates
   are taken *)
NewProject(pid, user, t) ==
    [id |-> pid, name |-> "p", createdBy |-> user, createdAt |-> t,
     status |-> "active"]

CreateProject(s, c) ==
    /\ reqs[s] = Idle
    /\ \E h \in c.headers :
         \/ Unauthorized(s, "createProject", h)
         \/ /\ Authenticate(h) # 0
            /\ Accept(c)
            /\ \E ok \in c.oks :
                 LET pid == Cardinality(kvKeys(kv, "project")) + 1
                     project == NewProject(pid, Authenticate(h), now)
                 IN  /\ kv' = IF ok THEN kvSet(kv, <<"project", pid>>, project) ELSE kv
                     /\ Respond(s, [op |-> "createProject", hdr |-> h,
                                    code |-> IF ok THEN 200 ELSE 500, ops |-> 1])
            /\ UNCHANGED <<now, auth, okCreated, okUpdates>>

(***************************************************************************)
(* Defects.  A date-valued field holds text: an ISO date of instant t,     *)
(* the empty string (the form's default), or text that is no date.         *)
(***************************************************************************)
DateAt(t) == [text |-> "date", t |-> t]
NoDate == [text |-> ""]
BadDate == [text |-> "soon"]

(* the fields POST /defects takes from the body; a field the body lacks is
   undefined and is not stored *)
CreateFields == {"title", "priority", "dueDate"}

Pick(body, fields) == [f \in fields \cap DOMAIN body |-> body[f]]

(* faulty variant: the whole body is spread into the defect *)
NewDefectFromBody(id, body, user, t) ==
    body
    @@ [id |-> id, status |-> "New", createdBy |-> user, createdAt |-> t,
        updatedAt |-> t, comments |-> <<>>]

NewDefect(id, body, user, t) ==
    Pick(body, CreateFields)
    @@ [id |-> id, status |-> "New", createdBy |-> user, createdAt |-> t,
        updatedAt |-> t, comments |-> <<>>]

FreshHistoryId == Cardinality(kvKeys(kv, "history")) + 1

(* faulty variant: the entry's id is the defect's, so the key is not fresh *)
HistoryEntryUnderDefectId(hid, d, action, user, t, keys) ==
    [id |-> d, defectId |-> d, action |-> action, userId |-> user,
     timestamp |-> t, details |-> keys]

(* faulty variant: every entry is written as an update *)
HistoryEntryAlwaysUpdated(hid, d, action, user, t, keys) ==
    [id |-> hid, defectId |-> d, action |-> "updated", userId |-> user,
     timestamp |-> t, details |-> keys]

HistoryEntry(hid, d, action, user, t, keys) ==
    [id |-> hid, defectId |-> d, action |-> action, userId |-> user,
     timestamp |-> t, details |-> keys]

(***************************************************************************)
(* POST /defects: write the defect, then write its history entry.          *)
(***************************************************************************)
CreateDefectBegin(s, c) ==
    /\ reqs[s] = Idle
    /\ \E h \in c.headers :
         \/ Unauthorized(s, "createDefect", h)
         \/ /\ Authenticate(h) # 0
            /\ Cardinality(kvKeys(kv, "defect")) < MaxDefects
            /\ Accept(c)
            /\ \E body \in c.bodies, ok \in c.oks :
                 LET id == Cardinality(kvKeys(kv, "defect")) + 1
                     defect == NewDefect(id, body, Authenticate(h), now)
                 IN  IF ok
                     THEN /\ kv' = kvSet(kv, <<"defect", id>>, defect)
                          /\ reqs' = [reqs EXCEPT ![s] =
                                        [pc |-> "createHistory", hdr |-> h,
                                         user |-> Authenticate(h), defect |-> defect]]
                          /\ UNCHANGED <<resp, roleFailed, ui>>
                     ELSE /\ kv' = kv
                          /\ Respond(s, [op |-> "createDefect", hdr |-> h,
                                         code |-> 500, ops |-> 1])
            /\ UNCHANGED <<now, auth, okCreated, okUpdates>>

CreateDefectHistory(s, c) ==
    /\ reqs[s].pc = "createHistory"
    /\ \E ok \in c.oks :
         LET r == reqs[s]
             d == r.defect.id
             entry == HistoryEntry(FreshHistoryId, d, "created", r.user, now, {})
         IN  IF ok
             THEN /\ kv' = kvSet(kv, <<"history", d, entry.id>>, entry)
                  /\ okCreated' = okCreated \cup {d}
                  /\ Respond(s, [op |-> "createDefect", hdr |-> r.hdr, code |-> 200,
                                 ops |-> 2, defect |-> r.defect])
             ELSE /\ UNCHANGED <<kv, okCreated>>
                  /\ Respond(s, [op |-> "createDefect", hdr |-> r.hdr, code |-> 500,
                                 ops |-> 2])
    /\ UNCHANGED <<now, auth, cnt, okUpdates>>

(***************************************************************************)
(* PUT /defects/:id: read the defect, write the merge, write the history   *)
(* entry.                                                                  *)
(***************************************************************************)
(* faulty variant: the payload is merged over the record stored at the
   write, as an atomic read-modify-write would *)
UpdatedDefectOverStored(existing, updates, t) ==
    Merge(Merge(kv[<<"defect", existing.id>>], updates), [updatedAt |-> t])

(* faulty variant: the payload is spread after the time stamp *)
UpdatedDefectPayloadLast(existing, updates, t) ==
    Merge(Merge(existing, [updatedAt |-> t]), updates)

(* {...existingDefect, ...updates, updatedAt: new Date().toISOString()} *)
UpdatedDefect(existing, updates, t) ==
    Merge(Merge(existing, updates), [updatedAt |-> t])

UpdateDefectBegin(s, c) ==
    /\ reqs[s] = Idle
    /\ \E h \in c.headers :
         \/ Unauthorized(s, "updateDefect", h)
         \/ /\ Authenticate(h) # 0
            /\ Accept(c)
            /\ \E id \in DefectIds, updates \in c.payloads, ok \in c.oks :
                 IF ~ok
                 THEN Respond(s, [op |-> "updateDefect", hdr |-> h, code |-> 500,
                                  ops |-> 1])
                 ELSE IF ~kvHas(kv, <<"defect", id>>)
                 THEN Respond(s, [op |-> "updateDefect", hdr |-> h, code |-> 404,
                                  ops |-> 1])
                 ELSE /\ reqs' = [reqs EXCEPT ![s] =
                                    [pc |-> "updateWrite", hdr |-> h,
                                     user |-> Authenticate(h), id |-> id,
                                     updates |-> updates,
                                     existing |-> kv[<<"defect", id>>]]]
                      /\ UNCHANGED <<resp, roleFailed, ui>>
            /\ UNCHANGED <<now, kv, auth, okCreated, okUpdates>>

UpdateDefectWrite(s, c) ==
    /\ reqs[s].pc = "updateWrite"
    /\ \E ok \in c.oks :
         LET r == reqs[s]
             updated == UpdatedDefect(r.existing, r.updates, now)
         IN  IF ok
             THEN /\ kv' = kvSet(kv, <<"defect", r.id>>, updated)
                  /\ reqs' = [reqs EXCEPT ![s] =
                                [pc |-> "updateHistory", hdr |-> r.hdr, user |-> r.user,
                                 id |-> r.id, updates |-> r.updates,
                                 existing |-> r.existing, defect |-> updated]]
                  /\ UNCHANGED <<resp, roleFailed, ui>>
             ELSE /\ kv' = kv
                  /\ Respond(s, [op |-> "updateDefect", hdr |-> r.hdr, code |-> 500,
                                 ops |-> 2])
    /\ UNCHANGED <<now, auth, cnt, okCreated, okUpdates>>

UpdateDefectHistory(s, c) ==
    /\ reqs[s].pc = "updateHistory"
    /\ \E ok \in c.oks :
         LET r == reqs[s]
             entry == HistoryEntry(FreshHistoryId, r.id, "updated", r.user, now,
                                   DOMAIN r.updates)
         IN  IF ok
             THEN /\ kv' = kvSet(kv, <<"history", r.id, entry.id>>, entry)
                  /\ okUpdates' = [okUpdates EXCEPT ![r.id] = @ + 1]
                  /\ Respond(s, [op |-> "updateDefect", hdr |-> r.hdr, code |-> 200,
                                 ops |-> 3, id |-> r.id, defect |-> r.defect])
             ELSE /\ UNCHANGED <<kv, okUpdates>>
                  /\ Respond(s, [op |-> "updateDefect", hdr |-> r.hdr, code |-> 500,
                                 ops |-> 3])
    /\ UNCHANGED <<now, auth, cnt, okCreated>>

(***************************************************************************)
(* GET /defects/:id: read the defect, then scan its history.               *)
(***************************************************************************)
(* faulty variant: the scan takes the history of every defect *)
HistoryOfAll(store, d) == {store[k] : k \in kvKeys(store, "history")}

(* kv.getByPrefix(`history:${defectId}:`) *)
HistoryOf(store, d) == {store[k] : k \in historyKeys(store, d)}

GetDefectBegin(s, c) ==
    /\ reqs[s] = Idle
    /\ \E h \in c.headers :
         \/ Unauthorized(s, "getDefect", h)
         \/ /\ Authenticate(h) # 0
            /\ \E id \in DefectIds, ok \in c.oks :
                 IF ~ok
                 THEN Respond(s, [op |-> "getDefect", hdr |-> h, code |-> 500, ops |-> 1])
                 ELSE IF ~kvHas(kv, <<"defect", id>>)
                 THEN Respond(s, [op |-> "getDefect", hdr |-> h, code |-> 404, ops |-> 1,
                                  id |-> id])
                 ELSE /\ reqs' = [reqs EXCEPT ![s] =
                                    [pc |-> "getHistory", hdr |-> h, id |-> id,
                                     defect |-> kv[<<"defect", id>>]]]
                      /\ UNCHANGED <<resp, roleFailed, ui>>
            /\ UNCHANGED <<now, kv, auth, cnt, okCreated, okUpdates>>

GetDefectHistory(s, c) ==
    /\ reqs[s].pc = "getHistory"
    /\ \E ok \in c.oks :
         LET r == reqs[s]
         IN  Answer(s, IF ok
                       THEN [op |-> "getDefect", hdr |-> r.hdr, code |-> 200, ops |-> 2,
                             id |-> r.id, defect |-> r.defect,
                             history |-> HistoryOf(kv, r.id)]
                       ELSE [op |-> "getDefect", hdr |-> r.hdr, code |-> 500, ops |-> 2])

(***************************************************************************)
(* POST /defects/:id/comments: read the defect, push the comment onto the  *)
(* document read, write the document back.                                 *)
(***************************************************************************)
CommentTexts == {"c"}

(* defect.comments || [] *)
CommentsOf(defect) == IF "comments" \in DOMAIN defect THEN defect.comments ELSE <<>>

(* faulty variant: the new comment replaces the sequence *)
WithCommentOnly(defect, newComment) ==
    Merge(defect, [comments |-> <<newComment>>])

WithComment(defect, newComment) ==
    Merge(defect, [comments |-> Append(CommentsOf(defect), newComment)])

AddCommentBegin(s, c) ==
    /\ reqs[s] = Idle
    /\ \E h \in c.headers :
         \/ Unauthorized(s, "addComment", h)
         \/ /\ Authenticate(h) # 0
            /\ Accept(c)
            /\ \E id \in DefectIds, comment \in CommentTexts, ok \in c.oks :
                 IF ~ok
                 THEN Respond(s, [op |-> "addComment", hdr |-> h, code |-> 500, ops |-> 1])
                 ELSE IF ~kvHas(kv, <<"defect", id>>)
                 THEN Respond(s, [op |-> "addComment", hdr |-> h, code |-> 404, ops |-> 1])
                 ELSE /\ reqs' = [reqs EXCEPT ![s] =
                                    [pc |-> "commentWrite", hdr |-> h,
                                     user |-> Authenticate(h), id |-> id,
                                     comment |-> comment,
                                     defect |-> kv[<<"defect", id>>]]]
                      /\ UNCHANGED <<resp, roleFailed, ui>>
            /\ UNCHANGED <<now, kv, auth, okCreated, okUpdates>>

AddCommentWrite(s, c) ==
    /\ reqs[s].pc = "commentWrite"
    /\ \E ok \in c.oks :
         LET r == reqs[s]
             newComment == [id |-> cnt.cmt + 1, author |-> r.user, comment |-> r.comment,
                            timestamp |-> now]
         IN  /\ cnt' = [cnt EXCEPT !.cmt = @ + 1]
             /\ IF ok
                THEN /\ kv' = kvSet(kv, <<"defect", r.id>>, WithComment(r.defect, newComment))
                     /\ Respond(s, [op |-> "addComment", hdr |-> r.hdr, code |-> 200,
                                    ops |-> 2, id |-> r.id, comment |-> newComment])
                ELSE /\ kv' = kv
                     /\ Respond(s, [op |-> "addComment", hdr |-> r.hdr, code |-> 500,
                                    ops |-> 2])
    /\ UNCHANGED <<now, auth, okCreated, okUpdates>>

(***************************************************************************)
(* GET /analytics.  statusCount and priorityCount are plain objects ({}),  *)
(* so a key that Object.prototype defines is found on a fresh object: the  *)
(* value read is then a function or an object, `|| 0` keeps it, `+ 1`      *)
(* makes a string of it, and the assignment stores that string, except     *)
(* under "__proto__", whose setter ignores a value that is no object.      *)
(* A value is a number n, or a string that ends in n ones.                 *)
(***************************************************************************)
ObjectPrototype == {"__proto__", "constructor", "toString", "valueOf"}

Num(k) == [kind |-> "number", n |-> k]
Str(k) == [kind |-> "string", n |-> k]

(* obj[key] = (obj[key] || 0) + 1 *)
Increment(obj, key) ==
    LET val == IF key \in DOMAIN obj
               THEN (IF obj[key].kind = "number" THEN Num(obj[key].n + 1)
                                                 ELSE Str(obj[key].n + 1))
               ELSE IF key \in ObjectPrototype THEN Str(1)
               ELSE Num(1)
    IN  IF key = "__proto__" THEN obj
        ELSE [k \in (DOMAIN obj) \cup {key} |-> IF k = key THEN val ELSE obj[k]]

(* the property key of a field: a missing field reads undefined *)
KeyOf(defect, f) == IF f \in DOMAIN defect THEN defect[f] ELSE "undefined"

(* defect.dueDate && new Date(defect.dueDate) < new Date(): an empty string
   is falsy, text that is no date parses to NaN, which is less than nothing *)
DueBefore(defect, t) ==
    /\ "dueDate" \in DOMAIN defect
    /\ defect.dueDate.text # ""
    /\ defect.dueDate.text = "date"
    /\ defect.dueDate.t < t

(* faulty variant: the status is not looked at *)
IsOverdueAnyStatus(defect, t) == DueBefore(defect, t)

IsOverdue(defect, t) == DueBefore(defect, t) /\ defect.status # "Closed"

(* the loop over the scanned defects, for one of the two count objects *)
RECURSIVE CountBy(_, _, _)
CountBy(store, keys, f) ==
    IF keys = {} THEN <<>>
    ELSE LET k == CHOOSE x \in keys : TRUE
         IN  Increment(CountBy(store, keys \ {k}, f), KeyOf(store[k], f))

AnalyticsOf(store, t) ==
    LET keys == kvKeys(store, "defect")
    IN  [totalDefects |-> Cardinality(keys),
         overdue |-> Cardinality({k \in keys : IsOverdue(store[k], t)}),
         statusCount |-> CountBy(store, keys, "status"),
         priorityCount |-> CountBy(store, keys, "priority")]

Analytics(s, c) ==
    /\ reqs[s] = Idle
    /\ \E h \in c.headers :
         \/ Unauthorized(s, "analytics", h)
         \/ /\ Authenticate(h) # 0
            /\ \E ok \in c.oks :
                 Answer(s, IF ok
                           THEN [op |-> "analytics", hdr |-> h, code |-> 200, ops |-> 1,
                                 body |-> AnalyticsOf(kv, now)]
                           ELSE [op |-> "analytics", hdr |-> h, code |-> 500, ops |-> 1])

(***************************************************************************)
(* PUT /users/:id/role: read the caller's User record and check it, check  *)
(* the role, read the target, write the target's record, update the        *)
(* authenticator's metadata (whose result the handler does not look at).   *)
(***************************************************************************)
(* the role of the caller's User record as read, "none" when it is absent *)
ProfileRole(store, user) ==
    IF kvHas(store, <<"user", user>>) THEN store[<<"user", user>>].role ELSE "none"

(* faulty variant: the role is validated before the caller is checked *)
RoleGateValidatesFirst(callerRole, role) ==
    IF role \notin validRoles THEN 400
    ELSE IF callerRole # "admin" THEN 403
    ELSE 0

(* faulty variant: any caller with a User record passes *)
RoleGateAnyUser(callerRole, role) ==
    IF callerRole = "none" THEN 403
    ELSE IF role \notin validRoles THEN 400
    ELSE 0

(* the status the checks answer with, 0 when they pass *)
RoleGate(callerRole, role) ==
    IF callerRole # "admin" THEN 403
    ELSE IF role \notin validRoles THEN 400
    ELSE 0

RoleResp(h, code, ops, callerRole, target, role) ==
    [op |-> "updateRole", hdr |-> h, code |-> code, ops |-> ops,
     callerRole |-> callerRole, role |-> role]

UpdateRoleBegin(s, c) ==
    /\ reqs[s] = Idle
    /\ \E h \in c.headers :
         \/ /\ Authenticate(h) = 0
            /\ RespondRole(s, c, [op |-> "updateRole", hdr |-> h, code |-> 401, ops |-> 0])
            /\ UNCHANGED <<now, kv, auth, cnt, okCreated, okUpdates>>
         \/ /\ Authenticate(h) # 0
            /\ Accept(c)
            /\ \E target \in UserIds, role \in c.roles, ok \in c.oks :
                 LET callerRole == ProfileRole(kv, Authenticate(h))
                     gate == RoleGate(callerRole, role)
                 IN  IF ~ok
                     THEN RespondRole(s, c, RoleResp(h, 500, 1, "unread", target, role))
                     ELSE IF gate # 0
                     THEN RespondRole(s, c, RoleResp(h, gate, 1, callerRole, target, role))
                     ELSE /\ reqs' = [reqs EXCEPT ![s] =
                                        [pc |-> "roleTarget", hdr |-> h,
                                         callerRole |-> callerRole,
                                         target |-> target, role |-> role]]
                          /\ UNCHANGED <<resp, roleFailed, ui>>
            /\ UNCHANGED <<now, kv, auth, okCreated, okUpdates>>

(* faulty variant: the target's record is written before it is looked up *)
UpdateRoleTargetWritesFirst(s, c) ==
    /\ reqs[s].pc = "roleTarget"
    /\ \E ok \in c.oks :
         LET r == reqs[s]
         IN  IF ~ok
             THEN /\ kv' = kv
                  /\ RespondRole(s, c, RoleResp(r.hdr, 500, 2, r.callerRole, r.target, r.role))
             ELSE IF ~kvHas(kv, <<"user", r.target>>)
             THEN /\ kv' = kvSet(kv, <<"user", r.target>>,
                                 [id |-> r.target, role |-> r.role])
                  /\ RespondRole(s, c, RoleResp(r.hdr, 404, 2, r.callerRole, r.target, r.role))
             ELSE /\ kv' = kv
                  /\ reqs' = [reqs EXCEPT ![s] =
                                [pc |-> "roleSet", hdr |-> r.hdr,
                                 callerRole |-> r.callerRole, target |-> r.target,
                                 role |-> r.role,
                                 userProfile |-> kv[<<"user", r.target>>]]]
                  /\ UNCHANGED <<resp, roleFailed, ui>>
    /\ UNCHANGED <<now, auth, cnt, okCreated, okUpdates>>

UpdateRoleTarget(s, c) ==
    /\ reqs[s].pc = "roleTarget"
    /\ \E ok \in c.oks :
         LET r == reqs[s]
         IN  IF ~ok
             THEN RespondRole(s, c, RoleResp(r.hdr, 500, 2, r.callerRole, r.target, r.role))
             ELSE IF ~kvHas(kv, <<"user", r.target>>)
             THEN RespondRole(s, c, RoleResp(r.hdr, 404, 2, r.callerRole, r.target, r.role))
             ELSE /\ reqs' = [reqs EXCEPT ![s] =
                                [pc |-> "roleSet", hdr |-> r.hdr,
                                 callerRole |-> r.callerRole, target |-> r.target,
                                 role |-> r.role,
                                 userProfile |-> kv[<<"user", r.target>>]]]
                  /\ UNCHANGED <<resp, roleFailed, ui>>
    /\ UNCHANGED <<now, kv, auth, cnt, okCreated, okUpdates>>

UpdatedProfile(userProfile, role, t) == Merge(userProfile, [role |-> role, updatedAt |-> t])

UpdateRoleSet(s, c) ==
    /\ reqs[s].pc = "roleSet"
    /\ \E ok \in c.oks :
         LET r == reqs[s]
             updated == UpdatedProfile(r.userProfile, r.role, now)
         IN  IF ok
             THEN /\ kv' = kvSet(kv, <<"user", r.target>>, updated)
                  /\ reqs' = [reqs EXCEPT ![s] =
                                [pc |-> "roleAuth", hdr |-> r.hdr,
                                 callerRole |-> r.callerRole, target |-> r.target,
                                 role |-> r.role, userProfile |-> r.userProfile,
                                 updatedProfile |-> updated]]
                  /\ UNCHANGED <<resp, roleFailed, ui>>
             ELSE /\ kv' = kv
                  /\ RespondRole(s, c, RoleResp(r.hdr, 500, 3, r.callerRole, r.target, r.role))
    /\ UNCHANGED <<now, auth, cnt, okCreated, okUpdates>>

(* supabase.auth.admin.updateUserById(userId, {user_metadata: {...userProfile, role}}):
   the authenticator merges the keys given into the stored metadata; when it
   refuses, it returns an error, which the handler ignores *)
UpdateRoleAuth(s, c) ==
    /\ reqs[s].pc = "roleAuth"
    /\ \E ok \in c.oks :
         LET r == reqs[s]
             meta == Merge(auth[r.target].meta, Merge(r.userProfile, [role |-> r.role]))
         IN  /\ auth' = IF ok /\ r.target \in DOMAIN auth
                        THEN [auth EXCEPT ![r.target].meta = meta]
                        ELSE auth
             /\ RespondRole(s, c, RoleResp(r.hdr, 200, 4, r.callerRole, r.target, r.role)
                           @@ [user |-> r.updatedProfile])
    /\ UNCHANGED <<now, kv, cnt, okCreated, okUpdates>>

(***************************************************************************)
(* Specifications.  A configuration names the inputs the requests are      *)
(* drawn from, whether a store call may fail, and the number of writing    *)
(* requests the model accepts (its budget).                                *)
(***************************************************************************)
BudgetAll == 3
BudgetAuth == 2
BudgetUsers == 3
BudgetDefects == 3
BudgetAnalytics == 4
BudgetRecords == 4
BudgetReads == 2
BudgetRoles == 2

OneDefectBody == {[title |-> "t1", priority |-> "High", dueDate |-> NoDate]}

(* Spec: every endpoint, one request at a time, at one instant, with the
   tokens of the client *)
Config ==
    [slots |-> {1}, headers |-> TokenHeaders, roles |-> {"engineer", "root"},
     signupRoles |-> {"admin"}, oks |-> BOOLEAN,
     bodies |-> OneDefectBody, payloads |-> {[priority |-> "Low"]},
     budget |-> BudgetAll, outcomes |-> FALSE]

Next ==
    \E s \in Config.slots :
         \/ Health(s)
         \/ Signup(s, Config)
         \/ ListUsers(s, Config)
         \/ ListProjects(s, Config)
         \/ ListDefects(s, Config)
         \/ CreateProject(s, Config)
         \/ CreateDefectBegin(s, Config)
         \/ CreateDefectHistory(s, Config)
         \/ UpdateDefectBegin(s, Config)
         \/ UpdateDefectWrite(s, Config)
         \/ UpdateDefectHistory(s, Config)
         \/ GetDefectBegin(s, Config)
         \/ GetDefectHistory(s, Config)
         \/ AddCommentBegin(s, Config)
         \/ AddCommentWrite(s, Config)
         \/ Analytics(s, Config)
         \/ UpdateRoleBegin(s, Config)
         \/ UpdateRoleTarget(s, Config)
         \/ UpdateRoleSet(s, Config)
         \/ UpdateRoleAuth(s, Config)

Spec == Init /\ [][Next]_vars

(* SpecAuth: every endpoint, every header, one request at a time *)
ConfigAuth ==
    [slots |-> {1}, headers |-> Headers, roles |-> {"engineer"},
     signupRoles |-> {"admin"}, oks |-> {TRUE},
     bodies |-> OneDefectBody, payloads |-> {[priority |-> "Low"]},
     budget |-> BudgetAuth, outcomes |-> FALSE]

NextAuth ==
    \E s \in ConfigAuth.slots :
       \/ Health(s)
       \/ Signup(s, ConfigAuth)
       \/ ListUsers(s, ConfigAuth)
       \/ ListProjects(s, ConfigAuth)
       \/ ListDefects(s, ConfigAuth)
       \/ CreateProject(s, ConfigAuth)
       \/ CreateDefectBegin(s, ConfigAuth)
       \/ CreateDefectHistory(s, ConfigAuth)
       \/ UpdateDefectBegin(s, ConfigAuth)
       \/ UpdateDefectWrite(s, ConfigAuth)
       \/ UpdateDefectHistory(s, ConfigAuth)
       \/ GetDefectBegin(s, ConfigAuth)
       \/ GetDefectHistory(s, ConfigAuth)
       \/ AddCommentBegin(s, ConfigAuth)
       \/ AddCommentWrite(s, ConfigAuth)
       \/ Analytics(s, ConfigAuth)
       \/ UpdateRoleBegin(s, ConfigAuth)
       \/ UpdateRoleTarget(s, ConfigAuth)
       \/ UpdateRoleSet(s, ConfigAuth)
       \/ UpdateRoleAuth(s, ConfigAuth)

SpecAuth == Init /\ [][NextAuth]_vars

(* SpecUsers: signup, the user list and concurrent role updates *)
ConfigUsers ==
    [slots |-> Slots, headers |-> ClientHeaders,
     roles |-> {"observer", "manager", "superuser"},
     signupRoles |-> {"admin", "undefined"}, oks |-> BOOLEAN,
     bodies |-> {}, payloads |-> {},
     budget |-> BudgetUsers, outcomes |-> FALSE]

NextUsers ==
    \E s \in ConfigUsers.slots :
       \/ Signup(s, ConfigUsers)
       \/ ListUsers(s, ConfigUsers)
       \/ UpdateRoleBegin(s, ConfigUsers)
       \/ UpdateRoleTarget(s, ConfigUsers)
       \/ UpdateRoleSet(s, ConfigUsers)
       \/ UpdateRoleAuth(s, ConfigUsers)

SpecUsers == Init /\ [][NextUsers]_vars

(* SpecDefects: concurrent creates, updates and comments of defects by the
   provisioned admin *)
AdminHeaders == {[scheme |-> "Bearer", toks |-> <<1>>]}

ConfigDefects ==
    [slots |-> Slots, headers |-> AdminHeaders, roles |-> {}, signupRoles |-> {},
     oks |-> BOOLEAN, bodies |-> OneDefectBody,
     payloads |-> {[comments |-> <<>>], [title |-> "t2", updatedAt |-> 0]},
     budget |-> BudgetDefects, outcomes |-> FALSE]

NextDefects ==
    \/ Tick
    \/ \E s \in ConfigDefects.slots :
         \/ CreateDefectBegin(s, ConfigDefects)
         \/ CreateDefectHistory(s, ConfigDefects)
         \/ UpdateDefectBegin(s, ConfigDefects)
         \/ UpdateDefectWrite(s, ConfigDefects)
         \/ UpdateDefectHistory(s, ConfigDefects)
         \/ AddCommentBegin(s, ConfigDefects)
         \/ AddCommentWrite(s, ConfigDefects)

SpecDefects == Init /\ [][NextDefects]_vars

(* SpecAnalytics: defects with every kind of due date, statuses inside and
   outside the enumeration, and the analytics of each store content *)
ConfigAnalytics ==
    [slots |-> {1}, headers |-> AdminHeaders, roles |-> {}, signupRoles |-> {},
     oks |-> {TRUE},
     bodies |-> {[title |-> "t1", priority |-> "High", dueDate |-> DateAt(0)],
                 [title |-> "t1", priority |-> "constructor", dueDate |-> BadDate],
                 [title |-> "t1", dueDate |-> NoDate]},
     payloads |-> {[status |-> "Closed"], [status |-> "Cancelled"],
                   [status |-> "__proto__"]},
     budget |-> BudgetAnalytics, outcomes |-> FALSE]

NextAnalytics ==
    \/ Tick
    \/ \E s \in ConfigAnalytics.slots :
         \/ CreateDefectBegin(s, ConfigAnalytics)
         \/ CreateDefectHistory(s, ConfigAnalytics)
         \/ UpdateDefectBegin(s, ConfigAnalytics)
         \/ UpdateDefectWrite(s, ConfigAnalytics)
         \/ UpdateDefectHistory(s, ConfigAnalytics)
         \/ Analytics(s, ConfigAnalytics)

SpecAnalytics == Init /\ [][NextAnalytics]_vars

(* SpecRecords: users who sign up, create defects from plain and from forged
   bodies, update them and read them back with their history *)
ForgedDefectBody ==
    [title |-> "forged", priority |-> "High", dueDate |-> NoDate, id |-> 9,
     status |-> "Closed", createdBy |-> 9, comments |-> <<"x">>]

ConfigRecords ==
    [slots |-> {1}, headers |-> TokenHeaders, roles |-> {}, signupRoles |-> {"admin"},
     oks |-> {TRUE}, bodies |-> OneDefectBody \cup {ForgedDefectBody},
     payloads |-> {[priority |-> "Low"], [id |-> 9, createdBy |-> 9]},
     budget |-> BudgetRecords, outcomes |-> FALSE]

NextRecords ==
    \E s \in ConfigRecords.slots :
       \/ Signup(s, ConfigRecords)
       \/ CreateDefectBegin(s, ConfigRecords)
       \/ CreateDefectHistory(s, ConfigRecords)
       \/ UpdateDefectBegin(s, ConfigRecords)
       \/ UpdateDefectWrite(s, ConfigRecords)
       \/ UpdateDefectHistory(s, ConfigRecords)
       \/ GetDefectBegin(s, ConfigRecords)
       \/ GetDefectHistory(s, ConfigRecords)

SpecRecords == Init /\ [][NextRecords]_vars

(* SpecRoles: concurrent role updates by the provisioned admin, whose
   outcomes are followed; the authenticator may refuse *)
ConfigRoles ==
    [slots |-> Slots, headers |-> AdminHeaders, roles |-> {"observer", "manager"},
     signupRoles |-> {}, oks |-> BOOLEAN, bodies |-> {}, payloads |-> {},
     budget |-> BudgetRoles, outcomes |-> TRUE]

NextRoles ==
    \E s \in ConfigRoles.slots :
       \/ UpdateRoleBegin(s, ConfigRoles)
       \/ UpdateRoleTarget(s, ConfigRoles)
       \/ UpdateRoleSet(s, ConfigRoles)
       \/ UpdateRoleAuth(s, ConfigRoles)

SpecRoles == Init /\ [][NextRoles]_vars

(* SpecReads: defects read by id while they are being created, with store
   calls that may fail *)
ConfigReads ==
    [slots |-> Slots, headers |-> AdminHeaders, roles |-> {}, signupRoles |-> {},
     oks |-> BOOLEAN, bodies |-> OneDefectBody, payloads |-> {},
     budget |-> BudgetReads, outcomes |-> FALSE]

NextReads ==
    \E s \in ConfigReads.slots :
       \/ CreateDefectBegin(s, ConfigReads)
       \/ CreateDefectHistory(s, ConfigReads)
       \/ GetDefectBegin(s, ConfigReads)
       \/ GetDefectHistory(s, ConfigReads)

SpecReads == Init /\ [][NextReads]_vars

(***************************************************************************)
(* The client application (App): accessToken, userInfo, currentPage and    *)
(* selectedDefectId, with the requests and the timer of its pages that are *)
(* in flight.  A token is named by what its payload holds; userInfo is     *)
(* kept by its role.  The session check of the first render has completed  *)
(* in the initial state.                                                   *)
(***************************************************************************)
MaxPending == 1

Pages == {"/", "/defects", "/create-defect", "/defect-detail", "/projects",
          "/analytics", "/admin"}

(* tokens: of an admin, of an engineer, with no role in user_metadata, and
   one whose payload does not parse *)
Tokens == {"admin", "engineer", "undefined", "malformed"}

(* payload.user_metadata?.role || 'observer' *)
PayloadRole(token) == IF token = "undefined" THEN "observer" ELSE token

(* allMenuItems: url -> roles *)
allMenuItems ==
    [url \in Pages \ {"/create-defect", "/defect-detail"} |->
        IF url = "/admin" THEN {"admin"} ELSE validRoles]

(* faulty variant: the menu is not filtered *)
menuItemsUnfiltered(userInfo) == DOMAIN allMenuItems

(* AppSidebar: userRole = userInfo?.role || 'observer', then the filter *)
menuItems(userInfo) ==
    LET userRole == IF userInfo = "null" THEN "observer" ELSE userInfo
    IN  {url \in DOMAIN allMenuItems : userRole \in allMenuItems[url]}

(* what App renders *)
renderCurrentPage(u) ==
    IF u.accessToken = "null" THEN "AuthPage"
    ELSE CASE u.currentPage = "/defects" -> "DefectsPage"
           [] u.currentPage = "/create-defect" -> "CreateDefectPage"
           [] u.currentPage = "/defect-detail" ->
                IF u.selectedDefectId # 0 THEN "DefectDetailPage" ELSE "DefectsPage"
           [] u.currentPage = "/projects" -> "ProjectsPage"
           [] u.currentPage = "/analytics" -> "AnalyticsPage"
           [] u.currentPage = "/admin" -> "AdminPage"
           [] OTHER -> "Dashboard"

(* the state a page component starts with when it is mounted *)
Mounted(u) == [u EXCEPT !.isLoading = FALSE, !.loading = FALSE]

(* a change of App's state; a page that is replaced loses its own state *)
SetApp(u) ==
    /\ ui' = IF renderCurrentPage(u) = renderCurrentPage(ui) THEN u ELSE Mounted(u)
    /\ UNCHANGED server

StartApp ==
    {[accessToken |-> "null", userInfo |-> "null", currentPage |-> "/",
      selectedDefectId |-> 0, isLoading |-> FALSE, loading |-> FALSE,
      signOuts |-> 0, creates |-> 0, timers |-> 0]}
    \cup
    {[accessToken |-> t, userInfo |-> PayloadRole(t), currentPage |-> "/",
      selectedDefectId |-> 0, isLoading |-> FALSE, loading |-> FALSE,
      signOuts |-> 0, creates |-> 0, timers |-> 0] : t \in Tokens \ {"malformed"}}

(* AuthPage handleLogin / handleSignup up to signInWithPassword *)
AuthSubmit ==
    /\ renderCurrentPage(ui) = "AuthPage"
    /\ ~ui.isLoading
    /\ SetApp([ui EXCEPT !.isLoading = TRUE])

(* App handleLogin(token) *)
handleLogin(u, token) ==
    [u EXCEPT !.accessToken = token,
              !.userInfo = IF token = "malformed" THEN @ ELSE PayloadRole(token)]

(* signInWithPassword returns: an error, or a session whose token goes to
   onLogin *)
AuthResolve ==
    /\ ui.isLoading
    /\ \/ SetApp([ui EXCEPT !.isLoading = FALSE])
       \/ \E token \in Tokens :
             SetApp(handleLogin([ui EXCEPT !.isLoading = FALSE], token))

(* handleLogout up to supabase.auth.signOut() *)
LogoutBegin ==
    /\ renderCurrentPage(ui) # "AuthPage"
    /\ ui.signOuts < MaxPending
    /\ SetApp([ui EXCEPT !.signOuts = @ + 1])

(* the three setters after signOut *)
LoggedOut(u) ==
    [u EXCEPT !.accessToken = "null", !.userInfo = "null", !.currentPage = "/"]

(* signOut returns, or throws *)
LogoutEnd ==
    /\ ui.signOuts > 0
    /\ \E ok \in BOOLEAN :
         LET u == [ui EXCEPT !.signOuts = @ - 1]
         IN  SetApp(IF ok THEN LoggedOut(u) ELSE u)

(* a click on an entry of the sidebar's menu *)
handleNavigate ==
    /\ renderCurrentPage(ui) # "AuthPage"
    /\ \E page \in menuItems(ui.userInfo) :
         SetApp([ui EXCEPT !.currentPage = page, !.selectedDefectId = 0])

(* the create button of DefectsPage, shown to engineer, manager and admin *)
handleCreateDefect ==
    /\ renderCurrentPage(ui) = "DefectsPage"
    /\ ui.userInfo \in {"engineer", "manager", "admin"}
    /\ SetApp([ui EXCEPT !.currentPage = "/create-defect"])

(* a click on a row of DefectsPage *)
handleViewDefect ==
    /\ renderCurrentPage(ui) = "DefectsPage"
    /\ \E defectId \in DefectIds :
         SetApp([ui EXCEPT !.selectedDefectId = defectId,
                           !.currentPage = "/defect-detail"])

(* the back buttons of CreateDefectPage and DefectDetailPage *)
handleBackToDefects ==
    /\ renderCurrentPage(ui) \in {"CreateDefectPage", "DefectDetailPage"}
    /\ SetApp([ui EXCEPT !.currentPage = "/defects", !.selectedDefectId = 0])

(* CreateDefectPage handleSubmit up to defectsAPI.create *)
SubmitBegin ==
    /\ renderCurrentPage(ui) = "CreateDefectPage"
    /\ ~ui.loading
    /\ ui.creates + ui.timers < MaxPending
    /\ SetApp([ui EXCEPT !.loading = TRUE, !.creates = @ + 1])

(* defectsAPI.create returns or throws, for the page shown or for one that
   has been replaced since; on success the timer is started *)
SubmitEnd ==
    /\ ui.creates > 0
    /\ \E ok \in BOOLEAN, own \in BOOLEAN :
         /\ own => ui.loading
         /\ ~own => ui.creates > (IF ui.loading THEN 1 ELSE 0)
         /\ SetApp([ui EXCEPT !.creates = @ - 1,
                              !.timers = IF ok THEN @ + 1 ELSE @,
                              !.loading = IF own THEN FALSE ELSE @])

(* App handleDefectCreated *)
DefectCreated(u) == [u EXCEPT !.currentPage = "/defects"]

(* the timer of handleSubmit fires (setTimeout 1500) *)
handleDefectCreated ==
    /\ ui.timers > 0
    /\ SetApp(DefectCreated([ui EXCEPT !.timers = @ - 1]))

NextApp ==
    \/ AuthSubmit
    \/ AuthResolve
    \/ LogoutBegin
    \/ LogoutEnd
    \/ handleNavigate
    \/ handleCreateDefect
    \/ handleViewDefect
    \/ handleBackToDefects
    \/ SubmitBegin
    \/ SubmitEnd
    \/ handleDefectCreated

InitApp ==
    /\ InitServer
    /\ kv = <<>>
    /\ ui \in StartApp

SpecApp == InitApp /\ [][NextApp]_vars

(***************************************************************************)
(* The page-level fetch of DefectsPage, ProjectsPage and AnalyticsPage:    *)
(* fetchData starts its requests together and awaits Promise.all, which    *)
(* is fulfilled when the last request is and rejected when the first one   *)
(* is.  A response is named by the number of the fetch that asked for it;  *)
(* 0 is the collection's initial value.                                    *)
(***************************************************************************)
MaxFetches == 2

Views == {"DefectsPage", "ProjectsPage", "AnalyticsPage"}

(* the collections a view keeps, one request each *)
Collections(view) ==
    IF view = "AnalyticsPage" THEN {"analytics", "defects", "projects"}
    ELSE {"defects", "projects", "users"}

(* setLoading(true) and the requests of Promise.all([...]) *)
fetchData(u) ==
    [u EXCEPT !.loading = TRUE, !.fetches = @ + 1, !.awaiting = TRUE,
              !.requests = [r \in Collections(u.view) |-> "pending"]]

StartPage ==
    {fetchData([view |-> view, loading |-> TRUE, error |-> "null",
                data |-> [r \in Collections(view) |-> 0],
                requests |-> [r \in Collections(view) |-> "none"],
                awaiting |-> FALSE, fetches |-> 0,
                createLoading |-> FALSE, creating |-> FALSE]) : view \in Views}

(* faulty variant: each collection is set as its own request returns *)
SettledEach(u) ==
    LET fetched == [r \in Collections(u.view) |->
                       IF u.requests[r] = "ok" THEN u.fetches ELSE u.data[r]]
    IN  IF \E r \in Collections(u.view) : u.requests[r] = "failed"
        THEN [u EXCEPT !.awaiting = FALSE, !.data = fetched,
                       !.error = "message", !.loading = FALSE]
        ELSE IF \A r \in Collections(u.view) : u.requests[r] = "ok"
        THEN [u EXCEPT !.awaiting = FALSE, !.data = fetched, !.loading = FALSE]
        ELSE [u EXCEPT !.data = fetched]

(* fetchData after the await: the setters of the try block when every
   request is fulfilled, catch when one is rejected, then finally *)
Settled(u) ==
    IF \E r \in Collections(u.view) : u.requests[r] = "failed"
    THEN [u EXCEPT !.awaiting = FALSE, !.error = "message", !.loading = FALSE]
    ELSE IF \A r \in Collections(u.view) : u.requests[r] = "ok"
    THEN [u EXCEPT !.awaiting = FALSE, !.loading = FALSE,
                   !.data = [r \in Collections(u.view) |-> u.fetches]]
    ELSE u

(* handleCreateProject: finally, once the fetchData it awaits has ended *)
CreateEnded(u) ==
    IF u.creating /\ ~u.awaiting
    THEN [u EXCEPT !.creating = FALSE, !.createLoading = FALSE]
    ELSE u

(* what the page renders *)
PageShows(u) ==
    IF u.loading THEN "skeleton"
    ELSE IF u.error # "null" THEN "error panel"
    ELSE "content"

(* a request of the fetch returns or throws *)
RequestEnds ==
    /\ \E r \in Collections(ui.view), outcome \in {"ok", "failed"} :
         /\ ui.requests[r] = "pending"
         /\ LET u == [ui EXCEPT !.requests[r] = outcome]
            IN  ui' = IF ui.awaiting THEN CreateEnded(Settled(u)) ELSE u
    /\ UNCHANGED server

(* ProjectsPage handleCreateProject up to projectsAPI.create *)
CreateProjectBegin ==
    /\ ui.view = "ProjectsPage"
    /\ PageShows(ui) = "content"
    /\ ~ui.createLoading
    /\ ui.fetches < MaxFetches
    /\ ui' = [ui EXCEPT !.createLoading = TRUE, !.creating = TRUE]
    /\ UNCHANGED server

(* projectsAPI.create returns (the data is fetched again) or throws *)
CreateProjectEnd ==
    /\ ui.creating
    /\ ~ui.awaiting
    /\ \E ok \in BOOLEAN :
         ui' = IF ok THEN fetchData(ui)
               ELSE [ui EXCEPT !.error = "message", !.creating = FALSE,
                               !.createLoading = FALSE]
    /\ UNCHANGED server

NextPage ==
    \/ RequestEnds
    \/ CreateProjectBegin
    \/ CreateProjectEnd

InitPage ==
    /\ InitServer
    /\ kv = <<>>
    /\ ui \in StartPage

SpecPage == InitPage /\ [][NextPage]_vars

(***************************************************************************)
(* AnalyticsPage: the derived views.  The numbers of the page are IEEE 754 *)
(* doubles.  A double is kept as its 53-bit significand M, in three limbs  *)
(* <<h, m, l>> of 17, 18 and 18 bits (M = h * 2^36 + m * 2^18 + l), and    *)
(* the exponent e of its last bit: the value is M * 2^e.  Division and     *)
(* multiplication round to nearest, ties to even.                          *)
(***************************************************************************)
Limb == 2^18

(* M + 1 *)
Successor(x) ==
    LET l == x.m[3] + 1
        m == x.m[2] + (IF l = Limb THEN 1 ELSE 0)
        h == x.m[1] + (IF m = Limb THEN 1 ELSE 0)
    IN  IF h = (Limb \div 2)
        THEN [m |-> <<Limb \div 4, 0, 0>>, e |-> x.e + 1]
        ELSE [m |-> <<h, m % Limb, l % Limb>>, e |-> x.e]

(* the double nearest to the exact value, of which x holds the first 53
   bits, roundBit the next one, and sticky whether any later bit is set *)
RoundToDouble(x, roundBit, sticky) ==
    IF roundBit = 1 /\ (sticky \/ (x.m[3] % 2) = 1) THEN Successor(x) ELSE x

(* c / t for 0 < c < t < 2^13: long division, 18 bits at a time, of the
   fraction scaled into [1/2, 1) *)
Quotient(c, t) ==
    LET k == CHOOSE j \in 1..13 : c * 2^j >= t /\ c * 2^(j - 1) < t
        r0 == c * 2^(k - 1)
        d1 == (r0 * Limb) \div t
        r1 == (r0 * Limb) % t
        d2 == (r1 * Limb) \div t
        r2 == (r1 * Limb) % t
        d3 == (r2 * Limb) \div t
        r3 == (r2 * Limb) % t
    IN  RoundToDouble([m |-> <<d1 \div 2,
                               (d2 \div 2) + ((d1 % 2) * (Limb \div 2)),
                               (d3 \div 2) + ((d2 % 2) * (Limb \div 2))>>,
                       e |-> 0 - (52 + k)],
                      d3 % 2, r3 # 0)

(* x * k for an integer k in 2..2^7 *)
Multiply(x, k) ==
    LET l == x.m[3] * k
        m == (x.m[2] * k) + (l \div Limb)
        h == (x.m[1] * k) + (m \div Limb)
        d == CHOOSE j \in 1..7 :
                (h \div 2^j) < (Limb \div 2) /\ (h \div 2^(j - 1)) >= (Limb \div 2)
        up == Limb \div 2^d
    IN  RoundToDouble([m |-> <<h \div 2^d,
                               ((m % Limb) \div 2^d) + ((h % 2^d) * up),
                               ((l % Limb) \div 2^d) + ((m % 2^d) * up)>>,
                       e |-> x.e + d],
                      ((l % Limb) \div 2^(d - 1)) % 2,
                      (l % Limb) % 2^(d - 1) # 0)

(* Math.round(x) for 0 < x < 2^17: the integer part, plus one when the
   fraction is a half or more *)
MathRound(x) ==
    LET whole == 53 + x.e
    IN  IF whole < 0 THEN 0
        ELSE IF whole = 0 THEN 1
        ELSE (x.m[1] \div 2^(17 - whole)) + ((x.m[1] \div 2^(16 - whole)) % 2)

(* totalDefects > 0 ? Math.round((completedDefects / totalDefects) * 100) : 0;
   0 / t = 0 and t / t = 1 are exact *)
CompletionRate(completedDefects, totalDefects) ==
    IF totalDefects > 0
    THEN IF completedDefects = 0 THEN 0
         ELSE IF completedDefects = totalDefects THEN 100
         ELSE MathRound(Multiply(Quotient(completedDefects, totalDefects), 100))
    ELSE 0

(* the rows of the project chart: projects.map(...).filter(p => p.total > 0) *)
getProjectPerformance(projects, defects) ==
    LET row(project) ==
            LET projectDefects == SelectSeq(defects, LAMBDA d : d.projectId = project.id)
                totalDefects == Len(projectDefects)
                completedDefects ==
                    Len(SelectSeq(projectDefects, LAMBDA d : d.status = "Closed"))
            IN  [name |-> project.name, total |-> totalDefects,
                 completed |-> completedDefects,
                 completionRate |-> CompletionRate(completedDefects, totalDefects)]
    IN  SelectSeq([i \in 1..Len(projects) |-> row(projects[i])], LAMBDA p : p.total > 0)

(* Time on the page: an instant is a number of hours since the epoch, a
   date a number of days; a time zone is its offset from UTC in hours. *)
HoursPerDay == 24
TimelineDays == 30

(* new Date(createdAt).toISOString().split('T')[0]: the date in UTC *)
IsoDate(instant) == instant \div HoursPerDay

(* new Date(date).toLocaleDateString('ru'): the date is parsed as midnight
   UTC and shown in the time zone of the client *)
LocaleDateOfDate(date, zone) == (date * HoursPerDay + zone) \div HoursPerDay

(* Object.entries(...).sort(...): the keys in ascending order *)
Sorted(S) ==
    [i \in 1..Cardinality(S) |->
        CHOOSE d \in S : Cardinality({x \in S : x < d}) = i - 1]

(* .slice(-n) *)
Slice(q, n) == SubSeq(q, IF Len(q) > n THEN Len(q) - n + 1 ELSE 1, Len(q))

(* the points of the timeline chart *)
getTimelineData(defects, zone) ==
    LET dates == {IsoDate(defects[i].createdAt) : i \in 1..Len(defects)}
        timeline == [date \in dates |->
                        Cardinality({i \in 1..Len(defects) :
                                        IsoDate(defects[i].createdAt) = date})]
        last == Slice(Sorted(dates), TimelineDays)
    IN  [i \in 1..Len(last) |->
            [date |-> LocaleDateOfDate(last[i], zone), count |-> timeline[last[i]]]]

(* SpecCharts: the charts of one project's defects, created one a day at
   the same hour, with or without a defect of an unknown project *)
MaxProjectDefects == 40

Zones == {0 - 5, 0, 3}

ChartProjects == <<[id |-> 1, name |-> "p1"], [id |-> 2, name |-> "p2"]>>

ChartDefects(completed, total, hour, stray) ==
    [i \in 1..total |->
        [projectId |-> 1, status |-> IF i <= completed THEN "Closed" ELSE "InProgress",
         createdAt |-> i * HoursPerDay + hour]]
    \o [i \in 1..stray |->
          [projectId |-> 3, status |-> "Closed", createdAt |-> HoursPerDay + hour]]

StartCharts ==
    {[projects |-> ChartProjects, defects |-> ChartDefects(n[1], n[2], hour, stray),
      zone |-> zone, rendered |-> FALSE,
      projectPerformanceData |-> <<>>, timelineData |-> <<>>] :
        n \in {m \in (0..MaxProjectDefects) \X (0..MaxProjectDefects) : m[1] <= m[2]},
        hour \in {1, 22}, stray \in 0..1, zone \in Zones}

(* AnalyticsPage renders its charts from the collections it has fetched *)
RenderCharts ==
    /\ ~ui.rendered
    /\ ui' = [ui EXCEPT !.rendered = TRUE,
                        !.projectPerformanceData =
                            getProjectPerformance(ui.projects, ui.defects),
                        !.timelineData = getTimelineData(ui.defects, ui.zone)]
    /\ UNCHANGED server

NextCharts == RenderCharts

InitCharts ==
    /\ InitServer
    /\ kv = <<>>
    /\ ui \in StartCharts

SpecCharts == InitCharts /\ [][NextCharts]_vars

(***************************************************************************)
(* Properties.                                                             *)
(***************************************************************************)
(* a step that sends a response: not the clock's, and no request moves on
   to a later step of its handler *)
Responds ==
    /\ now' = now
    /\ \A s \in Slots : reqs'[s] # reqs[s] => reqs'[s] = Idle

(* a step in which a handler answers from its first lines *)
RespondsAtOnce == now' = now /\ reqs' = reqs

RoleOf(store, u) == IF kvHas(store, <<"user", u>>) THEN store[<<"user", u>>].role ELSE "none"

(* C1: a role update by a caller whose own User record, as the handler read
   it, is absent or not admin is answered 403 whatever the role and the
   target in the request; an admin caller who sends a role outside
   validRoles is answered 400; neither answer comes with a change of the
   store or of the authenticator. *)
C1_RoleUpdateRejections ==
    [][(Responds /\ resp'.op = "updateRole" /\ resp'.code \notin {401, 500}) =>
          /\ resp'.callerRole # "admin" => resp'.code = 403
          /\ (resp'.callerRole = "admin" /\ resp'.role \notin validRoles)
                => resp'.code = 400
          /\ resp'.code \in {400, 403} => kv' = kv /\ auth' = auth
          /\ RespondsAtOnce =>
                resp'.callerRole = RoleOf(kv, Authenticate(resp'.hdr))]_vars

(* C1 witness: a caller without a User record asked for a role outside
   validRoles and was answered 403, while an admin exists *)
C1_Witness ==
    /\ resp.op = "updateRole"
    /\ resp.code = 403
    /\ resp.callerRole = "none"
    /\ resp.role = "superuser"
    /\ \E u \in UserIds : RoleOf(kv, u) = "admin"

(* C2: a step changes the role of a User record, or creates a User record
   with a role other than observer, only when it is the store write of a
   role update whose caller's record read admin at the handler's check. *)
C2_RolesChangeOnlyByAdminUpdate ==
    [][\A u \in UserIds :
          (RoleOf(kv', u) # RoleOf(kv, u)
             /\ ~(RoleOf(kv, u) = "none" /\ RoleOf(kv', u) = "observer"))
          => \E s \in Slots :
                /\ reqs[s].pc = "roleSet"
                /\ reqs'[s].pc = "roleAuth"
                /\ reqs[s].callerRole = "admin"
                /\ reqs[s].target = u
                /\ RoleOf(kv', u) = reqs[s].role]_vars

(* C2 witness: a user created by signup has been made engineer by an admin
   and the request was answered 200 *)
C2_Witness ==
    /\ resp.op = "updateRole"
    /\ resp.code = 200
    /\ \E u \in UserIds : RoleOf(kv, u) = "engineer"

(* C3: every identity a step creates has role observer in its metadata, and
   every User record a step creates has role observer, whatever role the
   signup body carries. *)
C3_SignupAlwaysObserver ==
    [][\A u \in UserIds :
          /\ (u \notin DOMAIN auth /\ u \in DOMAIN auth')
                => auth'[u].meta.role = "observer"
          /\ (RoleOf(kv, u) = "none" /\ RoleOf(kv', u) # "none")
                => RoleOf(kv', u) = "observer"
          /\ (Responds /\ resp'.op = "signup" /\ resp'.code = 200) =>
                /\ resp'.user \notin DOMAIN auth
                /\ RoleOf(kv', resp'.user) = "observer"
                /\ auth'[resp'.user].meta.role = "observer"]_vars

(* C3 witness: a signup whose body asked for admin succeeded and the record
   it wrote is an observer's *)
C3_Witness ==
    /\ resp.op = "signup"
    /\ resp.code = 200
    /\ resp.bodyRole = "admin"
    /\ RoleOf(kv, resp.user) = "observer"
    /\ auth[resp.user].meta.role = "observer"

AuthedOps ==
    {"listUsers", "listProjects", "listDefects", "createProject", "createDefect",
     "updateDefect", "getDefect", "addComment", "analytics", "updateRole"}

(* the header carries no token (no word after the scheme, or an empty one),
   or a token the authenticator resolves to no identity *)
NoIdentity(h, identities) ==
    \/ h.toks = <<>>
    \/ h.toks[1] = 0
    \/ h.toks[1] \notin identities

(* C4: on every endpoint but signup and health, a request whose header
   carries no token, or a token the authenticator cannot resolve, is
   answered 401 from the handler's first lines: no store or authenticator
   call was made, nothing changed, and no such request gets past them. *)
C4_UnauthorizedFirst ==
    [][/\ (RespondsAtOnce /\ resp'.op \in AuthedOps
             /\ NoIdentity(resp'.hdr, DOMAIN auth))
          => (resp'.code = 401 /\ resp'.ops = 0 /\ kv' = kv /\ auth' = auth)
       /\ \A s \in Slots :
             (reqs[s] = Idle /\ reqs'[s] # Idle)
             => ~NoIdentity(reqs'[s].hdr, DOMAIN auth)
       /\ (Responds /\ resp'.op \in AuthedOps /\ resp'.code = 401)
          => (resp'.ops = 0 /\ NoIdentity(resp'.hdr, DOMAIN auth))]_vars

(* C4 witness: an update of a stored defect sent with a token that resolves
   to no identity was answered 401 *)
C4_Witness ==
    /\ resp.op = "updateDefect"
    /\ resp.code = 401
    /\ resp.hdr.toks # <<>>
    /\ resp.hdr.toks[1] # 0
    /\ kvKeys(kv, "defect") # {}
    /\ DOMAIN auth # {}

DefectKey(d) == <<"defect", d>>

ActionsOf(store, d, action) == {k \in historyKeys(store, d) : store[k].action = action}

(* C5: a defect whose creation was answered 200 has exactly one history
   entry with action created, and one entry with action updated for each
   update of it that was answered 200, whatever the payloads: 1 + the
   number of successful updates in all. *)
C5_HistoryCount ==
    \A d \in okCreated :
       /\ Cardinality(historyKeys(kv, d)) = 1 + okUpdates[d]
       /\ Cardinality(ActionsOf(kv, d, "created")) = 1
       /\ Cardinality(ActionsOf(kv, d, "updated")) = okUpdates[d]

(* C5 witness: a created defect has been updated twice with success, the
   last time with a payload of two fields *)
C5_Witness ==
    /\ resp.op = "updateDefect"
    /\ resp.code = 200
    /\ resp.id \in okCreated
    /\ okUpdates[resp.id] = 2
    /\ \E k \in historyKeys(kv, resp.id) : Cardinality(kv[k].details) = 2

(* the other keys of the store are the same before and after the step *)
OnlyKeyWritten(key) ==
    /\ DOMAIN kv' = DOMAIN kv \cup {key}
    /\ \A k \in DOMAIN kv \ {key} : kv'[k] = kv[k]

(* C6: the write of an add-comment request that is answered 200 stores the
   defect document the request read with the new comment {id, author =
   caller, comment, timestamp} appended to its comments: the comments read
   stay, in their order, every other field keeps the value read, and no
   other key of the store, so no history entry, is written. *)
C6_AddCommentAppends ==
    [][\A s \in Slots :
          (reqs[s].pc = "commentWrite" /\ reqs'[s] = Idle /\ resp'.code = 200) =>
             LET r == reqs[s]
                 old == r.defect
                 new == kv'[DefectKey(r.id)]
                 newComment == resp'.comment
             IN  /\ new.comments = CommentsOf(old) \o <<newComment>>
                 /\ newComment.author = r.user
                 /\ newComment.comment = r.comment
                 /\ newComment.timestamp = now
                 /\ \A i \in 1..Len(CommentsOf(old)) : newComment.id # CommentsOf(old)[i].id
                 /\ DOMAIN new = DOMAIN old \cup {"comments"}
                 /\ \A f \in DOMAIN old \ {"comments"} : new[f] = old[f]
                 /\ OnlyKeyWritten(DefectKey(r.id))
                 /\ historyKeys(kv', r.id) = historyKeys(kv, r.id)]_vars

(* C6 witness: a second comment was added with success to a defect that has
   a history, and the first comment is still in front of it *)
C6_Witness ==
    /\ resp.op = "addComment"
    /\ resp.code = 200
    /\ kvHas(kv, DefectKey(resp.id))
    /\ Len(CommentsOf(kv[DefectKey(resp.id)])) = 2
    /\ kv[DefectKey(resp.id)].comments[2] = resp.comment
    /\ kv[DefectKey(resp.id)].comments[1].id # resp.comment.id
    /\ Cardinality(historyKeys(kv, resp.id)) = 1

IsPrefix(a, b) == Len(a) <= Len(b) /\ \A i \in 1..Len(a) : a[i] = b[i]

(* C7: the comment sequence of a stored defect is append-only: in every
   step the sequence stored before is a prefix of the sequence stored
   after. *)
C7_CommentsAppendOnly ==
    [][\A d \in DefectIds :
          kvHas(kv, DefectKey(d)) =>
             /\ kvHas(kv', DefectKey(d))
             /\ IsPrefix(CommentsOf(kv[DefectKey(d)]), CommentsOf(kv'[DefectKey(d)]))]_vars

(* the claim's definition of an overdue defect *)
OverdueByDefinition(defect, t) ==
    /\ "dueDate" \in DOMAIN defect
    /\ defect.dueDate # NoDate
    /\ \E due \in Times : defect.dueDate = DateAt(due) /\ due < t
    /\ defect.status # "Closed"

(* C8: the overdue count of an analytics response is the number of stored
   defects whose due date is set, is earlier than the time of the request,
   and whose status is not Closed. *)
C8_OverdueCount ==
    [][(Responds /\ resp'.op = "analytics" /\ resp'.code = 200) =>
          resp'.body.overdue =
             Cardinality({k \in kvKeys(kv, "defect") : OverdueByDefinition(kv[k], now)})]_vars

(* C8 witness: of two defects whose due date has passed, one Cancelled and
   one Closed, analytics counted one *)
C8_Witness ==
    /\ resp.op = "analytics"
    /\ resp.code = 200
    /\ resp.body.overdue = 1
    /\ \E j, k \in kvKeys(kv, "defect") :
          /\ kv[j].status = "Closed"
          /\ kv[k].status = "Cancelled"
          /\ kv[j].dueDate = DateAt(0)
          /\ kv[k].dueDate = DateAt(0)
          /\ now = 1

(* the sum of the values of a count object: a number while every value is
   one, a string as soon as one of them is *)
RECURSIVE Total(_)
Total(obj) ==
    IF DOMAIN obj = {} THEN Num(0)
    ELSE LET k == CHOOSE x \in DOMAIN obj : TRUE
             rest == Total([x \in DOMAIN obj \ {k} |-> obj[x]])
         IN  IF rest.kind = "number" /\ obj[k].kind = "number"
             THEN Num(rest.n + obj[k].n)
             ELSE Str(0)

(* C9: in every analytics response the values of statusCount sum to
   totalDefects, so do those of priorityCount, and totalDefects is the
   number of stored defects. *)
C9_CountsSumToTotal ==
    [][(Responds /\ resp'.op = "analytics" /\ resp'.code = 200) =>
          /\ resp'.body.totalDefects = Cardinality(kvKeys(kv, "defect"))
          /\ Total(resp'.body.statusCount) = Num(resp'.body.totalDefects)
          /\ Total(resp'.body.priorityCount) = Num(resp'.body.totalDefects)]_vars

(* C10: the write of a defect update stores the document the request read
   merged with the payload: a field the payload names has the payload's
   value, a field it does not name has the value read, and updatedAt is the
   server's time of the write, also when the payload names updatedAt; no
   other key of the store is written by that step. *)
C10_UpdateMerges ==
    [][\A s \in Slots :
          (reqs[s].pc = "updateWrite" /\ reqs'[s].pc = "updateHistory") =>
             LET r == reqs[s]
                 old == r.existing
                 new == kv'[DefectKey(r.id)]
             IN  /\ DOMAIN new = DOMAIN old \cup DOMAIN r.updates \cup {"updatedAt"}
                 /\ new.updatedAt = now
                 /\ \A f \in DOMAIN r.updates \ {"updatedAt"} : new[f] = r.updates[f]
                 /\ \A f \in DOMAIN old \ (DOMAIN r.updates \cup {"updatedAt"}) :
                       new[f] = old[f]
                 /\ OnlyKeyWritten(DefectKey(r.id))
                 /\ reqs'[s].defect = new]_vars

(* C10 witness: an update with {title, updatedAt: 0} sent at time 1 was
   answered 200; the stored defect has the new title, the priority it had,
   and updatedAt 1 *)
C10_Witness ==
    /\ resp.op = "updateDefect"
    /\ resp.code = 200
    /\ kv[DefectKey(resp.id)] = resp.defect
    /\ resp.defect.title = "t2"
    /\ resp.defect.priority = "High"
    /\ resp.defect.createdAt = 0
    /\ resp.defect.updatedAt = 1

(* the fields an update changed: those of the payload whose value differs
   from the value of the record read, or that the record read lacks *)
ChangedFields(existing, updates) ==
    {f \in DOMAIN updates : f \notin DOMAIN existing \/ existing[f] # updates[f]}

(* the history entry a step writes for defect d, given that it writes one *)
WrittenEntry(d) == kv'[CHOOSE k \in historyKeys(kv', d) : k \notin DOMAIN kv]

(* C11: the details of the updated entry a defect update writes are the
   names of the fields the update changed: a field whose value in the
   payload equals the value stored is not among them. *)
C11_DetailsListChangedFields ==
    [][\A s \in Slots :
          (reqs[s].pc = "updateHistory" /\ reqs'[s] = Idle /\ resp'.code = 200) =>
             /\ WrittenEntry(reqs[s].id).action = "updated"
             /\ WrittenEntry(reqs[s].id).details =
                   ChangedFields(reqs[s].existing, reqs[s].updates)]_vars

(* C12: the defect a create request stores has status New, no comments,
   createdBy the identity of the caller's token and an id no stored defect
   has, and of the body only the fields the handler takes; a status,
   comments, id or createdBy of the body is not stored. *)
C12_CreateStampsDefect ==
    [][\A s \in Slots :
          (reqs[s] = Idle /\ reqs'[s].pc = "createHistory") =>
             LET new == reqs'[s].defect
                 key == DefectKey(new.id)
             IN  /\ ~kvHas(kv, key)
                 /\ \A k \in kvKeys(kv, "defect") : kv[k].id # new.id
                 /\ kv' = kvSet(kv, key, new)
                 /\ new.status = "New"
                 /\ new.comments = <<>>
                 /\ new.createdBy = Authenticate(reqs'[s].hdr)
                 /\ new.createdBy \in DOMAIN auth
                 /\ new.createdAt = now /\ new.updatedAt = now
                 /\ DOMAIN new \subseteq
                       CreateFields \cup {"id", "status", "createdBy", "createdAt",
                                         "updatedAt", "comments"}]_vars

(* C12 witness: a user who signed up sent the forged body and is the
   creator of the stored defect, which is New and without comments, while
   another defect was created by the admin *)
C12_Witness ==
    /\ resp.op = "createDefect"
    /\ resp.code = 200
    /\ resp.defect.title = "forged"
    /\ resp.defect.createdBy = 2
    /\ resp.defect.status = "New"
    /\ resp.defect.comments = <<>>
    /\ kv[DefectKey(resp.defect.id)] = resp.defect
    /\ \E k \in kvKeys(kv, "defect") : kv[k].createdBy = 1

(* C13: reading a defect by id is answered 404 when, and only when, no
   defect is stored under the id; otherwise the answer is the defect as
   stored at the read, with exactly the stored history entries whose
   defectId is the id. *)
C13_GetDefectWithItsHistory ==
    [][/\ (RespondsAtOnce /\ resp'.op = "getDefect" /\ resp'.code \notin {401, 500}) =>
             (resp'.code = 404 /\ ~kvHas(kv, DefectKey(resp'.id)))
       /\ \A s \in Slots :
             (reqs[s] = Idle /\ reqs'[s].pc = "getHistory") =>
                /\ kvHas(kv, DefectKey(reqs'[s].id))
                /\ reqs'[s].defect = kv[DefectKey(reqs'[s].id)]
       /\ \A s \in Slots :
             (reqs[s].pc = "getHistory" /\ reqs'[s] = Idle /\ resp'.code = 200) =>
                /\ resp'.defect = reqs[s].defect
                /\ \A e \in resp'.history : e.defectId = reqs[s].id
                /\ \A k \in kvKeys(kv, "history") :
                      kv[k].defectId = reqs[s].id <=> kv[k] \in resp'.history]_vars

(* C13 witness: a defect was returned with its two history entries while
   another defect has a history entry of its own *)
C13_Witness ==
    /\ resp.op = "getDefect"
    /\ resp.code = 200
    /\ Cardinality(resp.history) = 2
    /\ \E k \in kvKeys(kv, "history") : kv[k].defectId # resp.id

(* C13 second witness state: an id under which nothing is stored was
   answered 404 while a defect is stored *)
C13_NotFoundReached ==
    /\ resp.op = "getDefect"
    /\ resp.code = 404
    /\ kvKeys(kv, "defect") # {}

(* C14: history entries are append-only: no step of any request changes or
   removes a stored history entry; every entry stays under its key with its
   content, so the history of every defect only grows. *)
C14_HistoryAppendOnly ==
    [][\A k \in kvKeys(kv, "history") : kvHas(kv', k) /\ kv'[k] = kv[k]]_vars

(* C14 witness: an update was answered 200 and its defect has the entry of
   its creation and the entry of the update *)
C14_Witness ==
    /\ resp.op = "updateDefect"
    /\ resp.code = 200
    /\ \E j, k \in historyKeys(kv, resp.id) :
          kv[j].action = "created" /\ kv[k].action = "updated"

(* the value of field f of a document, or a mark when it lacks the field *)
FieldOf(doc, f) == IF f \in DOMAIN doc THEN <<doc[f]>> ELSE <<>>

(* C15: concurrent updates of a defect are last-write-wins: when two
   updates have read the same record and one has written, the write of the
   other stores its own payload merged over the record read, so every field
   that only the earlier writer's payload named is back at the value read;
   neither request is refused: each is answered 200 unless the store
   fails. *)
C15_LastWriteWins ==
    [][\A s, t \in Slots :
          /\ (/\ s # t
              /\ reqs[s].pc = "updateWrite" /\ reqs'[s].pc = "updateHistory"
              /\ reqs[t].pc = "updateHistory"
              /\ reqs[t].id = reqs[s].id
              /\ reqs[t].existing = reqs[s].existing) =>
                LET new == kv'[DefectKey(reqs[s].id)]
                IN  /\ \A f \in DOMAIN reqs[s].updates \ {"updatedAt"} :
                          new[f] = reqs[s].updates[f]
                    /\ \A f \in DOMAIN reqs[t].updates \
                                  (DOMAIN reqs[s].updates \cup {"updatedAt"}) :
                          FieldOf(new, f) = FieldOf(reqs[s].existing, f)
          /\ (reqs[s].pc \in {"updateWrite", "updateHistory"} /\ reqs'[s] = Idle) =>
                resp'.code \in {200, 500}
          /\ (reqs[s].pc = "updateHistory" /\ reqs'[s] = Idle /\ kv' # kv) =>
                resp'.code = 200]_vars

(* C15 witness: two updates of a defect were both answered 200, one naming
   the title and one naming the comments, and the stored title is the one
   of the creation: the change of the title is lost *)
C15_Witness ==
    /\ resp.op = "updateDefect"
    /\ resp.code = 200
    /\ okUpdates[resp.id] = 2
    /\ \E k \in historyKeys(kv, resp.id) : "title" \in kv[k].details
    /\ \E k \in historyKeys(kv, resp.id) : "comments" \in kv[k].details
    /\ kv[DefectKey(resp.id)].title = "t1"

(* the caller of the request that slot s steps *)
ActingCaller(s) ==
    IF reqs[s] # Idle THEN reqs[s].user
    ELSE IF reqs'[s] # Idle THEN reqs'[s].user
    ELSE Authenticate(resp'.hdr)

WritesRecord(kinds) ==
    \E k \in DOMAIN kv' : k[1] \in kinds /\ (k \notin DOMAIN kv \/ kv'[k] # kv[k])

(* C16: an observer has read-only access: no step that writes a defect (its
   creation, an update, a comment) or a project is a step of a request
   whose caller's User record has role observer. *)
C16_ObserverReadOnly ==
    [][\A s \in Slots :
          (reqs'[s] # reqs[s] /\ WritesRecord({"defect", "project"})) =>
             RoleOf(kv, ActingCaller(s)) # "observer"]_vars

(* C17: on every authenticated endpoint but the role update, a request with
   a token that resolves to an identity is never answered 401 or 403,
   whatever the role of the caller's User record and also without one: it
   is answered 200, or 404 where the id names no stored defect, or 500 on a
   failure of the store. *)
C17_NoRoleCheckElsewhere ==
    [][(Responds /\ resp'.op \in AuthedOps \ {"updateRole"}
          /\ ~NoIdentity(resp'.hdr, DOMAIN auth)) =>
          /\ resp'.code \in {200, 404, 500}
          /\ resp'.code = 404 =>
                resp'.op \in {"getDefect", "updateDefect", "addComment"}]_vars

(* C17 witness: a caller who has an identity but no User record created a
   defect and was answered 200 *)
C17_Witness ==
    /\ resp.op = "createDefect"
    /\ resp.code = 200
    /\ resp.defect.createdBy \in DOMAIN auth
    /\ RoleOf(kv, resp.defect.createdBy) = "none"

(* C17: the same for an observer *)
C17_ObserverReached ==
    /\ resp.op = "createDefect"
    /\ resp.code = 200
    /\ RoleOf(kv, resp.defect.createdBy) = "observer"

(* C18: when a role update of user U to role R is answered 200, the User
   record of U and the authenticator's metadata of U both have role R, the
   answer carries the stored record, and the record's id, email, name and
   createdAt are those it had. *)
C18_RoleUpdateWritesBoth ==
    [][\A s \in Slots :
          (reqs[s].pc = "roleAuth" /\ reqs'[s] = Idle /\ resp'.code = 200) =>
             LET u == reqs[s].target
                 rec == kv'[<<"user", u>>]
             IN  /\ rec.role = reqs[s].role
                 /\ u \in DOMAIN auth' /\ auth'[u].meta.role = reqs[s].role
                 /\ resp'.user = rec
                 /\ \A f \in {"id", "email", "name", "createdAt"} :
                       rec[f] = reqs[s].userProfile[f]]_vars

(* C19: the project a create request stores has status active, createdBy
   the caller's identity and an id no stored project has; no step changes
   or removes a stored project; so every stored project is active. *)
C19_ProjectsImmutableActive ==
    /\ [](\A k \in kvKeys(kv, "project") : kv[k].status = "active")
    /\ [][/\ \A k \in kvKeys(kv, "project") : kvHas(kv', k) /\ kv'[k] = kv[k]
          /\ \A k \in kvKeys(kv', "project") \ DOMAIN kv :
                /\ kv'[k].status = "active"
                /\ kv'[k].createdBy = Authenticate(resp'.hdr)
                /\ kv'[k].createdBy \in DOMAIN auth
                /\ kv'[k].id = k[2]
                /\ \A j \in kvKeys(kv, "project") : kv[j].id # kv'[k].id
                /\ resp'.op = "createProject" /\ resp'.code = 200]_vars

(* C19 witness: a project is stored and still active after a defect was
   created and updated *)
C19_Witness ==
    /\ Cardinality(kvKeys(kv, "project")) = 1
    /\ \E d \in DefectIds : okUpdates[d] = 1
    /\ resp.op = "updateDefect"
    /\ \A k \in kvKeys(kv, "project") : kv[k].status = "active"

(* the enumerations of the defect forms *)
Statuses == {"New", "InProgress", "InReview", "Closed", "Cancelled"}
Priorities == {"Low", "Medium", "High", "Critical"}

(* C20: every stored defect has a status of the enumeration and a priority
   of the enumeration. *)
C20_StatusAndPriorityEnumerated ==
    \A k \in kvKeys(kv, "defect") :
       /\ kv[k].status \in Statuses
       /\ "priority" \in DOMAIN kv[k]
       /\ kv[k].priority \in Priorities

(* C23: the id of every stored defect document is the id of its key, and no
   step changes the id, createdBy or createdAt of a stored defect. *)
C23_DefectIdentityFixed ==
    /\ [](\A k \in kvKeys(kv, "defect") : kv[k].id = k[2])
    /\ [][\A k \in kvKeys(kv, "defect") :
             /\ kvHas(kv', k)
             /\ \A f \in {"id", "createdBy", "createdAt"} : kv'[k][f] = kv[k][f]]_vars

CreatedEntries(history) == {e \in history : e.action = "created"}

(* C26 as stated: every read of a defect by id that is answered 200 carries
   exactly one history entry with action created. *)
C26_ReadHasCreatedEntry ==
    [][\A s \in Slots :
          (reqs[s].pc = "getHistory" /\ reqs'[s] = Idle /\ resp'.code = 200) =>
             Cardinality(CreatedEntries(resp'.history)) = 1]_vars

(* C26 amended: a read of a defect by id that is answered 200 carries at
   most one history entry with action created: exactly one when the create
   request of the defect has been answered 200 by the time of the history
   scan, none while the entry is not yet written or when its write
   failed. *)
C26_ReadHasCreatedEntryOnceWritten ==
    [][\A s \in Slots :
          (reqs[s].pc = "getHistory" /\ reqs'[s] = Idle /\ resp'.code = 200) =>
             /\ Cardinality(CreatedEntries(resp'.history)) <= 1
             /\ reqs[s].id \in okCreated <=>
                   Cardinality(CreatedEntries(resp'.history)) = 1]_vars

(* C26 witness: a stored defect was read with an empty history after the
   write of its history entry failed *)
C26_Witness ==
    /\ resp.op = "getDefect"
    /\ resp.code = 200
    /\ resp.history = {}
    /\ kvHas(kv, DefectKey(resp.id))
    /\ resp.id \notin okCreated
    /\ \A s \in Slots : reqs[s] = Idle

(* C26: a read that found the created entry *)
C26_CreatedEntryReached ==
    /\ resp.op = "getDefect"
    /\ resp.code = 200
    /\ Cardinality(CreatedEntries(resp.history)) = 1

Rejections == {400, 401, 403, 404}

(* a step in which a handler answers: from its first lines, or ending a
   request in flight *)
Answers ==
    /\ now' = now
    /\ \/ reqs' = reqs
       \/ \E s \in Slots : reqs[s] # Idle /\ reqs'[s] = Idle

(* C27: a request answered 400, 401, 403 or 404 has written nothing: the
   step that answers so leaves the store and the authenticator as they
   were, it is the first step of its request or the target lookup of a role
   update, and the step before a target lookup writes nothing either. *)
C27_RejectionsWriteNothing ==
    [][/\ (Answers /\ resp'.code \in Rejections) =>
             /\ kv' = kv
             /\ auth' = auth
             /\ \A s \in Slots : reqs'[s] # reqs[s] => reqs[s].pc = "roleTarget"
       /\ \A s \in Slots :
             (reqs[s] = Idle /\ reqs'[s] # Idle /\ reqs'[s].pc = "roleTarget") =>
                (kv' = kv /\ auth' = auth)]_vars

(* C27 witness: an admin's role update for a user id with no record was
   answered 404 *)
C27_Witness ==
    /\ resp.op = "updateRole"
    /\ resp.code = 404
    /\ resp.callerRole = "admin"
    /\ \A s \in Slots : reqs[s] = Idle

NoAdmin == \A u \in UserIds : RoleOf(kv, u) # "admin"

(* C24: from a state in which no User record has the role admin, no step
   changes the role of a User record, and a role update that starts there
   is answered at once, with 403 (401 without an identity, 500 when the read
   of the caller's record fails). *)
C24_NoAdminIsFinal ==
    [][NoAdmin =>
          /\ \A u \in UserIds :
                kvHas(kv, <<"user", u>>) => RoleOf(kv', u) = RoleOf(kv, u)
          /\ \A s \in Slots :
                (reqs[s] = Idle /\ reqs'[s] # Idle) => reqs'[s].pc # "roleTarget"
          /\ (Answers /\ reqs' = reqs /\ resp'.op = "updateRole") =>
                resp'.code \in {401, 403, 500}]_vars

RoleUpdateInFlight ==
    \E s \in Slots : reqs[s].pc \in {"roleTarget", "roleSet", "roleAuth"}

(* C25: when no role update is in flight and every role update answered so
   far was answered 200, the role of each User record is the role of the
   same user's metadata in the authenticator. *)
C25_RecordMatchesMetadata ==
    (~RoleUpdateInFlight /\ ~roleFailed) =>
       \A u \in DOMAIN auth :
          kvHas(kv, <<"user", u>>) => kv[<<"user", u>>].role = auth[u].meta.role

(* C28: the current page is /admin only while userInfo holds the role admin;
   without an access token the page shown is the auth page; and the step in
   which a sign-out ends either resets accessToken and userInfo to null and
   currentPage to "/" (it succeeded) or leaves the three as they were (it
   threw). *)
C28_NavigationGuards ==
    /\ [](ui.currentPage = "/admin" => ui.userInfo = "admin")
    /\ [](ui.accessToken = "null" => renderCurrentPage(ui) = "AuthPage")
    /\ [][ui'.signOuts < ui.signOuts =>
             \/ /\ ui'.accessToken = "null"
                /\ ui'.userInfo = "null"
                /\ ui'.currentPage = "/"
             \/ /\ ui'.accessToken = ui.accessToken
                /\ ui'.userInfo = ui.userInfo
                /\ ui'.currentPage = ui.currentPage]_vars

(* C28 witness: the admin page is open for an admin whose sign-out is in
   flight *)
C28_Witness ==
    /\ ui.currentPage = "/admin"
    /\ ui.userInfo = "admin"
    /\ renderCurrentPage(ui) = "AdminPage"
    /\ ui.signOuts = 1

(* C28: signed out (the auth page is shown) while the timer of a created
   defect is still pending *)
C28_SignedOutReached ==
    /\ ui.accessToken = "null"
    /\ ui.userInfo = "null"
    /\ ui.currentPage = "/"
    /\ ui.timers = 1

(* C29: the step in which the timer of a created defect fires changes the
   current page to /defects when it is /create-defect and leaves it
   unchanged otherwise. *)
C29_CallbackOnlyFromForm ==
    [][ui'.timers < ui.timers =>
          ui'.currentPage = IF ui.currentPage = "/create-defect"
                            THEN "/defects" ELSE ui.currentPage]_vars

FetchSettles == ui.awaiting /\ ~ui'.awaiting

(* C30: a fetch starts all its requests together; the collections change
   only in the step in which the last request is fulfilled, all of them to
   the responses of this fetch; the step in which a request is rejected
   leaves every collection as it was, sets the error and makes the page
   show the error panel; loading is false once the fetch has settled; and no
   fetch starts while an error is set. *)
C30_FetchAllOrNothing ==
    [][/\ ui'.fetches > ui.fetches =>
             /\ \A r \in Collections(ui.view) : ui'.requests[r] = "pending"
             /\ ui.error = "null"
       /\ ui'.data # ui.data =>
             /\ FetchSettles
             /\ \A r \in Collections(ui.view) :
                   ui'.requests[r] = "ok" /\ ui'.data[r] = ui.fetches
       /\ (FetchSettles /\ \E r \in Collections(ui.view) : ui'.requests[r] = "failed") =>
             /\ ui'.data = ui.data
             /\ ui'.error # "null"
             /\ PageShows(ui') = "error panel"
       /\ FetchSettles => ~ui'.loading]_vars

(* C30 witness: a fetch was rejected while one of its requests had already
   been fulfilled; no collection was set *)
C30_Witness ==
    /\ ~ui.awaiting
    /\ ~ui.loading
    /\ PageShows(ui) = "error panel"
    /\ \E r \in Collections(ui.view) : ui.requests[r] = "ok"
    /\ \E r \in Collections(ui.view) : ui.requests[r] = "failed"
    /\ \A r \in Collections(ui.view) : ui.data[r] = 0

(* C30: a fetch whose requests were all fulfilled *)
C30_FetchedReached ==
    /\ ~ui.awaiting
    /\ ~ui.loading
    /\ PageShows(ui) = "content"
    /\ \A r \in Collections(ui.view) : ui.data[r] = ui.fetches

Matching(project) == {i \in 1..Len(ui.defects) : ui.defects[i].projectId = project.id}

ClosedOf(project) == {i \in Matching(project) : ui.defects[i].status = "Closed"}

(* C21: the project chart has one row for each project with a defect of
   its id, in the order of the projects, and none for the others; a row's
   total and completed count the project's defects and its Closed ones, and
   its completionRate is 100 * completed / total rounded to the nearest
   integer, halves up: an integer in 0..100. *)
C21_CompletionRates ==
    ui.rendered =>
       LET rows == ui.projectPerformanceData
           shown == SelectSeq(ui.projects, LAMBDA p : Matching(p) # {})
       IN  /\ Len(rows) = Len(shown)
           /\ \A i \in 1..Len(rows) :
                 LET total == Cardinality(Matching(shown[i]))
                     closed == Cardinality(ClosedOf(shown[i]))
                 IN  /\ rows[i].name = shown[i].name
                     /\ rows[i].total = total
                     /\ rows[i].completed = closed
                     /\ closed <= total
                     /\ rows[i].completionRate \in 0..100
                     /\ rows[i].completionRate = (200 * closed + total) \div (2 * total)

(* the date of an instant in the time zone of the client *)
LocalDate(instant, zone) == (instant + zone) \div HoursPerDay

(* C22: the timeline has one point for each date, in the time zone of the
   client, on which a defect was created, with the number of defects created
   on that date; the points are in ascending order of date and only the 30
   latest dates are kept. *)
C22_TimelineByLocalDay ==
    ui.rendered =>
       LET created(date) == {i \in 1..Len(ui.defects) :
                                LocalDate(ui.defects[i].createdAt, ui.zone) = date}
           dates == {LocalDate(ui.defects[i].createdAt, ui.zone) : i \in 1..Len(ui.defects)}
           kept == Slice(Sorted(dates), TimelineDays)
       IN  /\ Len(ui.timelineData) = Len(kept)
           /\ \A i \in 1..Len(kept) :
                 /\ ui.timelineData[i].date = kept[i]
                 /\ ui.timelineData[i].count = Cardinality(created(kept[i]))

====
